---- MODULE Spec2Model ----
(***************************************************************************)
(* Model of the two Ansible modules of ansible-mongodb-atlas:              *)
(*   library/mongo_atlas_cluster.py  (create / delete an Atlas cluster)    *)
(*   library/mongo_atlas_user.py     (create / update / delete a user)     *)
(*                                                                         *)
(* One run of the model fixes the arguments a playbook task supplies and   *)
(* the state of the Atlas control plane, and then executes main() up to    *)
(* MaxPasses times against that control plane.  main() is split at its     *)
(* remote calls: the GET, and then the one branch of the dispatch that     *)
(* applies.  Every remote call is appended to `calls` together with the    *)
(* payload sent and the response received.                                 *)
(*                                                                         *)
(* Python values: None is the string "None"; a key that is not in a dict   *)
(* is the string "Missing".  All scalar values are strings so that they    *)
(* can be compared with None.  Python 2 semantics (the modules target      *)
(* Ansible 2.2): map() returns a list.                                     *)
(***************************************************************************)
EXTENDS Integers, Sequences, FiniteSets, TLC

\* Longest list of role grants a task supplies, and longest list of roles
\* the control plane holds for the user before the first pass.
MaxRoles == 2
\* Number of times the same task is run against the control plane.
MaxPasses == 2

None == "None"
Missing == "Missing"

\* requests' json 'error' field of an error response that means "not found".
NotFound == "404"
\* Other error codes the control plane answers with.
OtherErrors == {"401", "500"}

VARIABLES
    kind,             \* which module runs: "cluster" or "user"
    args,             \* the arguments the task supplies (None = not supplied)
    remotePresent,    \* control plane: the resource exists
    remoteRoles,      \* control plane: the roles of the user (<<>> otherwise)
    pass,             \* number of the current run of main()
    pc,               \* position in main(): "start", "fetched", "done"
    subject_response, \* json of the GET
    subject_state,    \* 'present' / 'absent' / "unbound" (never assigned)
    calls,            \* remote calls issued by this pass, in order
    outcome,          \* how the pass ended: exit_json / fail_json / exception
    prev              \* outcome and number of writes of the previous pass

vars == <<kind, args, remotePresent, remoteRoles, pass, pc, subject_response,
          subject_state, calls, outcome, prev>>

----------------------------------------------------------------------------
(* Responses and outcomes *)

\* The json of a response: which request it answers, its 'error' field
\* (None when the body has none) and its 'roles' field.
Response(op, error, roles) == [op |-> op, error |-> error, roles |-> roles]

NoResponse == Response("none", None, <<>>)

\* A remote call as recorded in `calls`.
Call(op, payload, resp) == [op |-> op, payload |-> payload, resp |-> resp]

NoPayload == [empty |-> TRUE]

\* module.exit_json(changed=..., <resource>=carried)
exit_json(changed, carried) ==
    [status |-> "exit", changed |-> changed, carried |-> carried]

\* module.fail_json(msg=..., response=carried)
fail_json(carried) ==
    [status |-> "fail", changed |-> Missing, carried |-> carried]

\* An exception leaves main(): neither exit_json nor fail_json is called.
Raised(exception) ==
    [status |-> exception, changed |-> Missing, carried |-> NoResponse]

Running == [status |-> "running", changed |-> Missing, carried |-> NoResponse]

Writes(log) == SelectSeq(log, LAMBDA c : c.op # "get")

----------------------------------------------------------------------------
(* mongo_atlas_cluster.py *)

\* Arguments of the cluster module a task may leave out or supply.
ClusterArgs ==
    [name : {"c1"},
     state : {None, "present", "absent"},
     num_shards : {None, "2"},
     replication_factor : {None, "5"},
     instance_size : {None, "M30"},
     disk_iops : {None, "300"},
     encrypt : {None, "true"},
     backup_enabled : {None, "false"},
     region_name : {None, "US_WEST_2"},
     disk_size : {None, "40"}]

Default(v, d) == IF v = None THEN d ELSE v

\* module.params after AnsibleModule applied the argument_spec defaults.
cluster_params(a) ==
    [name |-> a.name,
     state |-> Default(a.state, "present"),
     num_shards |-> Default(a.num_shards, "1"),
     replication_factor |-> Default(a.replication_factor, "3"),
     instance_size |-> Default(a.instance_size, "M10"),
     disk_iops |-> a.disk_iops,
     encrypt |-> a.encrypt,
     backup_enabled |-> Default(a.backup_enabled, "true"),
     region_name |-> Default(a.region_name, "US_EAST_1"),
     disk_size |-> a.disk_size]

\* payload[key] = value only `if value is not None`
IfNotNone(v) == IF v # None THEN v ELSE Missing

\* A variant of the payload that leaves the disk size out.
create_cluster_payload_no_disk(p) ==
    [name |-> p.name,
     backupEnabled |-> IfNotNone(p.backup_enabled),
     numShards |-> IfNotNone(p.num_shards),
     replicationFactor |-> IfNotNone(p.replication_factor),
     diskSizeGB |-> Missing,
     providerSettings |->
        [providerName |-> "AWS",
         regionName |-> IfNotNone(p.region_name),
         instanceSizeName |-> IfNotNone(p.instance_size),
         diskIOPS |-> IfNotNone(p.disk_iops),
         encryptEBSVolume |-> IfNotNone(p.encrypt)]]

\* The json payload create_cluster() posts.
create_cluster_payload(p) ==
    [name |-> p.name,
     backupEnabled |-> IfNotNone(p.backup_enabled),
     numShards |-> IfNotNone(p.num_shards),
     replicationFactor |-> IfNotNone(p.replication_factor),
     diskSizeGB |-> IfNotNone(p.disk_size),
     providerSettings |->
        [providerName |-> "AWS",
         regionName |-> IfNotNone(p.region_name),
         instanceSizeName |-> IfNotNone(p.instance_size),
         diskIOPS |-> IfNotNone(p.disk_iops),
         encryptEBSVolume |-> IfNotNone(p.encrypt)]]

----------------------------------------------------------------------------
(* The control plane *)

\* What a GET of the resource can answer: the resource, or "not found" when
\* it does not exist, or some other error.
FetchResponses ==
    (IF remotePresent
        THEN {Response("get", None, remoteRoles)}
        ELSE {Response("get", NotFound, <<>>)})
    \cup {Response("get", e, <<>>) : e \in OtherErrors}

\* What a write can answer: success (the write is applied) or an error
\* (the write is not applied).
WriteResponses(op, roles) ==
    {Response(op, None, roles)} \cup {Response(op, e, <<>>) : e \in OtherErrors}

----------------------------------------------------------------------------
(* main() of mongo_atlas_cluster.py *)

CP == cluster_params(args)

\* subject_state as lines 105-108 of mongo_atlas_cluster.py leave it.
cluster_subject_state(resp) ==
    IF resp.error = None THEN "present"
    ELSE IF resp.error = NotFound THEN "absent"
    ELSE "unbound"

\* get_cluster() and the derivation of subject_state.
cluster_main_get ==
    /\ kind = "cluster"
    /\ pc = "start"
    /\ \E resp \in FetchResponses :
          /\ subject_response' = resp
          /\ subject_state' = cluster_subject_state(resp)
          /\ calls' = Append(calls, Call("get", NoPayload, resp))
    /\ pc' = "fetched"
    /\ UNCHANGED <<kind, args, remotePresent, remoteRoles, pass, outcome, prev>>

\* subject_state was never assigned: reading it raises UnboundLocalError
\* (line 110 when state is 'absent', line 114 when it is 'present').
cluster_main_unbound ==
    /\ kind = "cluster"
    /\ pc = "fetched"
    /\ subject_state = "unbound"
    /\ outcome' = Raised("UnboundLocalError")
    /\ pc' = "done"
    /\ UNCHANGED <<kind, args, remotePresent, remoteRoles, pass,
                   subject_response, subject_state, calls, prev>>

cluster_main_absent_absent ==
    /\ kind = "cluster"
    /\ pc = "fetched"
    /\ CP.state = "absent" /\ subject_state = "absent"
    /\ outcome' = exit_json("false", NoResponse)
    /\ pc' = "done"
    /\ UNCHANGED <<kind, args, remotePresent, remoteRoles, pass,
                   subject_response, subject_state, calls, prev>>

cluster_main_create ==
    /\ kind = "cluster"
    /\ pc = "fetched"
    /\ CP.state = "present" /\ subject_state = "absent"
    /\ \E cluster \in WriteResponses("create", <<>>) :
          /\ calls' = Append(calls,
                             Call("create", create_cluster_payload(CP), cluster))
          /\ remotePresent' = (remotePresent \/ cluster.error = None)
          /\ outcome' = IF cluster.error # None
                           THEN fail_json(cluster)
                           ELSE exit_json("true", cluster)
    /\ pc' = "done"
    /\ UNCHANGED <<kind, args, remoteRoles, pass, subject_response,
                   subject_state, prev>>

cluster_main_delete ==
    /\ kind = "cluster"
    /\ pc = "fetched"
    /\ CP.state = "absent" /\ subject_state = "present"
    /\ \E cluster \in WriteResponses("delete", <<>>) :
          /\ calls' = Append(calls, Call("delete", NoPayload, cluster))
          /\ remotePresent' = (remotePresent /\ cluster.error # None)
          /\ outcome' = IF cluster.error # None
                           THEN fail_json(cluster)
                           ELSE exit_json("true", cluster)
    /\ pc' = "done"
    /\ UNCHANGED <<kind, args, remoteRoles, pass, subject_response,
                   subject_state, prev>>

cluster_main_present_present ==
    /\ kind = "cluster"
    /\ pc = "fetched"
    /\ CP.state = "present" /\ subject_state = "present"
    /\ outcome' = exit_json("false", subject_response)
    /\ pc' = "done"
    /\ UNCHANGED <<kind, args, remotePresent, remoteRoles, pass,
                   subject_response, subject_state, calls, prev>>

----------------------------------------------------------------------------
(* mongo_atlas_user.py *)

GroupId == "g1"

\* A python dict holding a role grant: each key maps to its value or Missing.
RoleDict(db, role, roleName, databaseName) ==
    [db |-> db, role |-> role, roleName |-> roleName,
     databaseName |-> databaseName]

\* An element of the `roles` list of a task: a str, or a dict.
StrRole(name) ==
    [type |-> "str", str |-> name,
     dict |-> RoleDict(Missing, Missing, Missing, Missing)]
DictRole(d) == [type |-> "dict", str |-> Missing, dict |-> d]

\* The shapes of grant a playbook can write: a bare role name, the db/role
\* shorthand, the api's own form, and dicts with only one shorthand key.
Grants ==
    {StrRole("read"),
     DictRole(RoleDict("sales", "read", Missing, Missing)),
     DictRole(RoleDict(Missing, Missing, "read", "admin")),
     DictRole(RoleDict("sales", Missing, Missing, Missing)),
     DictRole(RoleDict(Missing, "read", Missing, Missing))}

\* Role grants as the api returns them.
ApiRoles ==
    {RoleDict(Missing, Missing, "read", "admin"),
     RoleDict(Missing, Missing, "read", "sales")}

SeqsUpTo(S, n) == UNION {[1..k -> S] : k \in 0..n}

\* The `roles` argument: None (not supplied) or a list of grants.
NoRoles == [isNone |-> TRUE, items |-> <<>>]
RoleList(items) == [isNone |-> FALSE, items |-> items]

\* Arguments of the user module a task may leave out or supply.
UserArgs ==
    [user : {"u1"},
     password : {None, "pw"},
     state : {None, "present", "absent"},
     update_password : {None, "always", "on_create"},
     roles : {NoRoles} \cup {RoleList(l) : l \in SeqsUpTo(Grants, MaxRoles)}]

\* module.params after AnsibleModule applied the argument_spec defaults.
user_params(a) ==
    [user |-> a.user,
     password |-> a.password,
     state |-> Default(a.state, "present"),
     update_password |-> Default(a.update_password, "always"),
     roles |-> a.roles]

\* role.get(key): None when the key is not in the dict.
Get(d, key) == IF d[key] = Missing THEN None ELSE d[key]

map_roles(role) ==
    IF role.type = "str"
        THEN RoleDict(Missing, Missing, role.str, "admin")
    ELSE IF Get(role.dict, "db") # None /\ Get(role.dict, "role") # None
        THEN RoleDict(Missing, Missing, role.dict.role, role.dict.db)
    ELSE role.dict

\* map(map_roles, roles) for a list; for None it raises TypeError, which the
\* callers model before they use this.
roles_with_dbs(roles) ==
    [i \in 1..Len(roles.items) |-> map_roles(roles.items[i])]

\* The json payload create_user() posts: password=password, None included.
create_user_payload(user, roles, password) ==
    [databaseName |-> "admin",
     groupId |-> GroupId,
     username |-> user,
     roles |-> roles_with_dbs(roles),
     password |-> password]

\* Variants of the early return of sync_user(): never taken; taken without
\* looking at the password.
sync_user_always_patches(http_response, roles, password) == FALSE

sync_user_ignores_password(http_response, roles, password) ==
    http_response.roles = roles_with_dbs(roles)

\* sync_user() returns dict(changed=False) without a request.

sync_user_unchanged(http_response, roles, password) ==
    http_response.roles = roles_with_dbs(roles) /\ password = None

\* The json payload sync_user() patches.
sync_user_payload(user, roles, password) ==
    [databaseName |-> "admin",
     groupId |-> GroupId,
     username |-> user,
     roles |-> roles_with_dbs(roles),
     password |-> IfNotNone(password)]

\* A variant that hands the password over whatever the policy.
sync_password_ignores_policy(p) == p.password

\* The password main() hands to sync_user() (lines 251-265).

sync_password(p) ==
    IF p.update_password = "always" /\ p.password # None
        THEN p.password
        ELSE None

----------------------------------------------------------------------------
(* main() of mongo_atlas_user.py *)

UP == user_params(args)

\* subject_state as lines 210-217 of mongo_atlas_user.py leave it.
user_subject_state(resp) ==
    IF resp.error = None THEN "present"
    ELSE IF resp.error = NotFound THEN "absent"
    ELSE "unbound"

\* get_user() and the derivation of subject_state; any error but 404 fails.
user_main_get ==
    /\ kind = "user"
    /\ pc = "start"
    /\ \E resp \in FetchResponses :
          /\ subject_response' = resp
          /\ subject_state' = user_subject_state(resp)
          /\ calls' = Append(calls, Call("get", NoPayload, resp))
          /\ IF user_subject_state(resp) = "unbound"
                THEN outcome' = fail_json(resp) /\ pc' = "done"
                ELSE outcome' = outcome /\ pc' = "fetched"
    /\ UNCHANGED <<kind, args, remotePresent, remoteRoles, pass, prev>>

user_main_create ==
    /\ kind = "user"
    /\ pc = "fetched"
    /\ UP.state = "present" /\ subject_state = "absent"
    /\ IF UP.roles.isNone
          THEN \* map(map_roles, None) raises before the request
               /\ outcome' = Raised("TypeError")
               /\ UNCHANGED <<calls, remotePresent, remoteRoles>>
          ELSE LET payload == create_user_payload(UP.user, UP.roles,
                                                  UP.password)
               IN \E response \in WriteResponses("create", payload.roles) :
                     /\ calls' = Append(calls,
                                        Call("create", payload, response))
                     /\ remotePresent' =
                           (remotePresent \/ response.error = None)
                     /\ remoteRoles' = IF response.error = None
                                          THEN payload.roles
                                          ELSE remoteRoles
                     /\ outcome' = IF response.error = None
                                      THEN exit_json("true", response)
                                      ELSE fail_json(response)
    /\ pc' = "done"
    /\ UNCHANGED <<kind, args, pass, subject_response, subject_state, prev>>

user_main_absent_absent ==
    /\ kind = "user"
    /\ pc = "fetched"
    /\ UP.state = "absent" /\ subject_state = "absent"
    /\ outcome' = exit_json("false", NoResponse)
    /\ pc' = "done"
    /\ UNCHANGED <<kind, args, remotePresent, remoteRoles, pass,
                   subject_response, subject_state, calls, prev>>

user_main_delete ==
    /\ kind = "user"
    /\ pc = "fetched"
    /\ UP.state = "absent" /\ subject_state = "present"
    /\ \E response \in WriteResponses("delete", <<>>) :
          /\ calls' = Append(calls, Call("delete", NoPayload, response))
          /\ remotePresent' = (remotePresent /\ response.error # None)
          /\ remoteRoles' = IF response.error = None THEN <<>> ELSE remoteRoles
          /\ outcome' = IF response.error = None
                           THEN exit_json("true", response)
                           ELSE fail_json(response)
    /\ pc' = "done"
    /\ UNCHANGED <<kind, args, pass, subject_response, subject_state, prev>>

\* A variant that replaces the user instead of patching it.
user_main_sync_recreates ==
    /\ kind = "user"
    /\ pc = "fetched"
    /\ UP.state = "present" /\ subject_state = "present"
    /\ ~UP.roles.isNone
    /\ LET payload == create_user_payload(UP.user, UP.roles, UP.password)
       IN \E deleted \in WriteResponses("delete", <<>>),
             response \in WriteResponses("create", payload.roles) :
             /\ calls' = calls \o <<Call("delete", NoPayload, deleted),
                                    Call("create", payload, response)>>
             /\ remotePresent' = (response.error = None)
             /\ remoteRoles' = IF response.error = None
                                  THEN payload.roles ELSE <<>>
             /\ outcome' = IF response.error = None
                              THEN exit_json("true", subject_response)
                              ELSE fail_json(response)
    /\ pc' = "done"
    /\ UNCHANGED <<kind, args, pass, subject_response, subject_state, prev>>

\* A variant that reports the 'changed' sync_user() set without looking at
\* the response's error.
user_main_sync_unchecked ==
    /\ kind = "user"
    /\ pc = "fetched"
    /\ UP.state = "present" /\ subject_state = "present"
    /\ ~UP.roles.isNone
    /\ LET password == sync_password(UP)
           payload == sync_user_payload(UP.user, UP.roles, password)
       IN \E response \in WriteResponses("update", payload.roles) :
             /\ calls' = Append(calls, Call("update", payload, response))
             /\ remoteRoles' = IF response.error = None
                                  THEN payload.roles ELSE remoteRoles
             /\ outcome' = exit_json("true", subject_response)
    /\ pc' = "done"
    /\ UNCHANGED <<kind, args, remotePresent, pass, subject_response,
                   subject_state, prev>>

\* The present/present branch: sync_user() with the password the policy
\* lets through, then exit_json / fail_json on its result.
user_main_sync ==
    /\ kind = "user"
    /\ pc = "fetched"
    /\ UP.state = "present" /\ subject_state = "present"
    /\ LET password == sync_password(UP)
       IN IF UP.roles.isNone
             THEN \* map(map_roles, None) raises before the comparison
                  /\ outcome' = Raised("TypeError")
                  /\ UNCHANGED <<calls, remoteRoles>>
          ELSE IF sync_user_unchanged(subject_response, UP.roles, password)
             THEN /\ outcome' = exit_json("false", subject_response)
                  /\ UNCHANGED <<calls, remoteRoles>>
          ELSE LET payload == sync_user_payload(UP.user, UP.roles, password)
               IN \E response \in WriteResponses("update", payload.roles) :
                     /\ calls' = Append(calls,
                                        Call("update", payload, response))
                     /\ remoteRoles' = IF response.error = None
                                          THEN payload.roles
                                          ELSE remoteRoles
                     /\ outcome' = IF response.error = None
                                      THEN exit_json("true", subject_response)
                                      ELSE fail_json(response)
    /\ pc' = "done"
    /\ UNCHANGED <<kind, args, remotePresent, pass, subject_response,
                   subject_state, prev>>

----------------------------------------------------------------------------
(* The playbook runs the same task again *)

RunAgain ==
    /\ pc = "done"
    /\ pass < MaxPasses
    /\ pass' = pass + 1
    /\ prev' = [status |-> outcome.status, changed |-> outcome.changed,
                writes |-> Len(Writes(calls))]
    /\ pc' = "start"
    /\ subject_response' = NoResponse
    /\ subject_state' = "none"
    /\ calls' = <<>>
    /\ outcome' = Running
    /\ UNCHANGED <<kind, args, remotePresent, remoteRoles>>

Init ==
    /\ \/ /\ kind = "cluster"
          /\ args \in ClusterArgs
          /\ remotePresent \in BOOLEAN
          /\ remoteRoles = <<>>
       \/ /\ kind = "user"
          /\ args \in UserArgs
          /\ \/ remotePresent = FALSE /\ remoteRoles = <<>>
             \/ remotePresent = TRUE
                /\ remoteRoles \in SeqsUpTo(ApiRoles, MaxRoles)
    /\ pass = 1
    /\ pc = "start"
    /\ subject_response = NoResponse
    /\ subject_state = "none"
    /\ calls = <<>>
    /\ outcome = Running
    /\ prev = [status |-> "none", changed |-> Missing, writes |-> 0]

Next ==
    \/ cluster_main_get
    \/ cluster_main_unbound
    \/ cluster_main_absent_absent
    \/ cluster_main_create
    \/ cluster_main_delete
    \/ cluster_main_present_present
    \/ user_main_get
    \/ user_main_create
    \/ user_main_absent_absent
    \/ user_main_delete
    \/ user_main_sync
    \/ RunAgain

Spec == Init /\ [][Next]_vars

----------------------------------------------------------------------------
(* Properties *)

Done == pc = "done"
W == Writes(calls)
Desired == IF kind = "cluster" THEN CP.state ELSE UP.state
Observed == subject_state \in {"present", "absent"}
Succeeded(call) == call.resp.error = None
ExitWith(changed) == outcome.status = "exit" /\ outcome.changed = changed
OneWrite(op) == Len(W) = 1 /\ W[1].op = op
UserPresentPresent ==
    /\ kind = "user" /\ Done
    /\ UP.state = "present" /\ subject_state = "present"

\* C1: a finished pass whose GET showed the resource present or absent did
\* what the convergence table says for (desired, observed): absent/absent no
\* write and changed=false; absent/present exactly delete; present/absent
\* exactly create; cluster present/present no write and changed=false.  A
\* write that succeeded reports changed=true.
C1_ConvergenceTable ==
    (Done /\ Observed) =>
        CASE Desired = "absent" /\ subject_state = "absent" ->
                W = <<>> /\ ExitWith("false")
          [] Desired = "absent" /\ subject_state = "present" ->
                OneWrite("delete") /\ (Succeeded(W[1]) => ExitWith("true"))
          [] Desired = "present" /\ subject_state = "absent" ->
                OneWrite("create") /\ (Succeeded(W[1]) => ExitWith("true"))
          [] Desired = "present" /\ subject_state = "present" ->
                kind = "cluster" => (W = <<>> /\ ExitWith("false"))

\* C2, as claimed: for a user present/present with a roles list, no update
\* and changed=false exactly when the normalized roles equal the observed
\* roles and no password was supplied; otherwise exactly one update carrying
\* the normalized roles, and changed=true once it succeeded.
C2_UpdateUnlessRolesEqualAndNoPasswordSupplied ==
    (UserPresentPresent /\ ~UP.roles.isNone) =>
        IF subject_response.roles = roles_with_dbs(UP.roles)
              /\ UP.password = None
           THEN W = <<>> /\ ExitWith("false")
           ELSE /\ OneWrite("update")
                /\ W[1].payload.roles = roles_with_dbs(UP.roles)
                /\ (Succeeded(W[1]) => ExitWith("true"))

\* C2, amended: for a user present/present, no update and changed=false
\* exactly when the normalized roles equal the observed roles and no password
\* reaches sync_user (none supplied, or the policy is on_create); otherwise
\* exactly one update carrying the normalized roles, reported as changed=true
\* when it succeeded and as a failure when it did not.  Without a roles list
\* the pass raises TypeError before any request.
C2_UpdateUnlessRolesEqualAndNoPasswordPassed ==
    UserPresentPresent =>
        IF UP.roles.isNone
           THEN W = <<>> /\ outcome.status = "TypeError"
        ELSE IF /\ subject_response.roles = roles_with_dbs(UP.roles)
                /\ (UP.password = None \/ UP.update_password = "on_create")
           THEN W = <<>> /\ ExitWith("false")
           ELSE /\ OneWrite("update")
                /\ W[1].payload.roles = roles_with_dbs(UP.roles)
                /\ IF Succeeded(W[1])
                      THEN ExitWith("true")
                      ELSE outcome.status = "fail"

\* C2 witness: on_create, a password supplied, roles equal: nothing is sent.
C2_Witness ==
    /\ UserPresentPresent /\ ~UP.roles.isNone
    /\ UP.password # None /\ UP.update_password = "on_create"
    /\ UP.roles.items # <<>>
    /\ subject_response.roles = roles_with_dbs(UP.roles)
    /\ W = <<>> /\ ExitWith("false")

\* C3: an update payload has a password field exactly when a password was
\* supplied and the policy is 'always'; under on_create with a password
\* supplied the update is issued when the roles differ, nothing is sent when
\* they match, and no payload has a password field.
C3_PasswordOnlyUnderAlways ==
    kind = "user" =>
        /\ \A i \in 1..Len(calls) :
              calls[i].op = "update" =>
                 ((calls[i].payload.password # Missing)
                    <=> (UP.password # None /\ UP.update_password = "always"))
        /\ (/\ UserPresentPresent /\ ~UP.roles.isNone
            /\ UP.update_password = "on_create" /\ UP.password # None)
           => IF subject_response.roles # roles_with_dbs(UP.roles)
                 THEN OneWrite("update") /\ W[1].payload.password = Missing
                 ELSE W = <<>>

\* C3 witness: on_create, a password supplied, roles differ: one update.
C3_Witness ==
    /\ UserPresentPresent /\ ~UP.roles.isNone
    /\ UP.update_password = "on_create" /\ UP.password # None
    /\ subject_response.roles # roles_with_dbs(UP.roles)
    /\ OneWrite("update")

\* C4: the GET is the first call of a pass and the only GET, a write is
\* issued only after the GET answered with presence or absence, and a pass
\* issues at most one write.
C4_FetchFirstAtMostOneWrite ==
    /\ Len(W) <= 1
    /\ \A i \in 1..Len(calls) : (calls[i].op = "get") <=> (i = 1)
    /\ (W # <<>> => Observed /\ subject_response = calls[1].resp)

\* C4 witness: a pass that fetched and then wrote.
C4_Witness == Done /\ Len(calls) = 2 /\ Len(W) = 1

\* C5: a GET answered 404 gives observed absence and is no failure; a GET
\* answered with any other error ends the pass as a reported failure carrying
\* that response, with no write and no changed flag.
C5_FetchErrorIsReportedFailure ==
    /\ (pc # "start" /\ subject_response.error = NotFound) =>
          /\ subject_state = "absent"
          /\ ~(outcome.status = "fail" /\ outcome.carried = subject_response)
    /\ (Done /\ subject_response.error \in OtherErrors) =>
          /\ outcome = fail_json(subject_response)
          /\ W = <<>>

\* C6: no payload of a create or update carries None for an optional field.
C6_NoNullInPayload ==
    \A i \in 1..Len(calls) :
        /\ (kind = "cluster" /\ calls[i].op = "create") =>
              LET p == calls[i].payload
              IN /\ None \notin {p.backupEnabled, p.numShards,
                                 p.replicationFactor, p.diskSizeGB}
                 /\ None \notin {p.providerSettings.regionName,
                                 p.providerSettings.instanceSizeName,
                                 p.providerSettings.diskIOPS,
                                 p.providerSettings.encryptEBSVolume}
        /\ (kind = "user" /\ calls[i].op \in {"create", "update"}) =>
              calls[i].payload.password # None

IsCanonical(d) ==
    /\ d.roleName # Missing /\ d.databaseName # Missing
    /\ d.db = Missing /\ d.role = Missing

\* C7: every grant of a user create or update payload is a roleName /
\* databaseName pair without shorthand keys, one per input grant, in order.
C7_CanonicalGrants ==
    kind = "user" =>
        \A i \in 1..Len(calls) :
            calls[i].op \in {"create", "update"} =>
                LET sent == calls[i].payload.roles
                IN /\ Len(sent) = Len(UP.roles.items)
                   /\ \A j \in 1..Len(sent) :
                         /\ IsCanonical(sent[j])
                         /\ UP.roles.items[j].type = "str" =>
                               sent[j].roleName = UP.roles.items[j].str

ClusterCreated(i) == kind = "cluster" /\ calls[i].op = "create"

\* C8, as claimed: the create payload of a cluster holds the name, the
\* provider name AWS and exactly the optional fields the task supplied.
C8_PayloadHoldsOnlySuppliedFields ==
    \A i \in 1..Len(calls) :
        ClusterCreated(i) =>
            calls[i].payload =
                [name |-> args.name,
                 backupEnabled |-> IfNotNone(args.backup_enabled),
                 numShards |-> IfNotNone(args.num_shards),
                 replicationFactor |-> IfNotNone(args.replication_factor),
                 diskSizeGB |-> IfNotNone(args.disk_size),
                 providerSettings |->
                    [providerName |-> "AWS",
                     regionName |-> IfNotNone(args.region_name),
                     instanceSizeName |-> IfNotNone(args.instance_size),
                     diskIOPS |-> IfNotNone(args.disk_iops),
                     encryptEBSVolume |-> IfNotNone(args.encrypt)]]

\* C8, amended: the create payload of a cluster holds the name, the provider
\* name AWS, the optional fields the task supplied, and for num_shards,
\* replication_factor, instance_size, backup_enabled and region_name left out
\* the module's defaults 1, 3, M10, true and US_EAST_1; only disk_iops,
\* encrypt and disk_size are absent when left out.  A cluster wanted and
\* absent gets exactly that one create, reported changed=true on success.
C8_PayloadHoldsSuppliedFieldsAndDefaults ==
    /\ \A i \in 1..Len(calls) :
          ClusterCreated(i) =>
             calls[i].payload =
                [name |-> args.name,
                 backupEnabled |-> IF args.backup_enabled = None
                                      THEN "true" ELSE args.backup_enabled,
                 numShards |-> IF args.num_shards = None
                                  THEN "1" ELSE args.num_shards,
                 replicationFactor |-> IF args.replication_factor = None
                                          THEN "3"
                                          ELSE args.replication_factor,
                 diskSizeGB |-> IF args.disk_size = None
                                   THEN Missing ELSE args.disk_size,
                 providerSettings |->
                    [providerName |-> "AWS",
                     regionName |-> IF args.region_name = None
                                       THEN "US_EAST_1" ELSE args.region_name,
                     instanceSizeName |-> IF args.instance_size = None
                                             THEN "M10"
                                             ELSE args.instance_size,
                     diskIOPS |-> IF args.disk_iops = None
                                     THEN Missing ELSE args.disk_iops,
                     encryptEBSVolume |-> IF args.encrypt = None
                                             THEN Missing ELSE args.encrypt]]
    /\ (/\ kind = "cluster" /\ Done
        /\ args.state # "absent" /\ subject_state = "absent")
       => OneWrite("create") /\ (Succeeded(W[1]) => ExitWith("true"))

\* C8 witness: only disk_size=40 supplied, the cluster absent, the create
\* succeeded.
C8_Witness ==
    /\ kind = "cluster" /\ Done
    /\ args = [name |-> "c1", state |-> "present", num_shards |-> None,
               replication_factor |-> None, instance_size |-> None,
               disk_iops |-> None, encrypt |-> None, backup_enabled |-> None,
               region_name |-> None, disk_size |-> "40"]
    /\ OneWrite("create") /\ ExitWith("true")
    /\ W[1].payload.diskSizeGB = "40"
    /\ W[1].payload.numShards = "1"

\* C9: a write answered with an error is the last call of its pass and the
\* pass ends as a failure carrying that response; changed=true is reported
\* only after exactly one write, answered without error.
C9_WriteErrorFails ==
    /\ \A i \in 1..Len(calls) :
          (calls[i].op # "get" /\ ~Succeeded(calls[i])) =>
              /\ i = Len(calls)
              /\ Done
              /\ outcome = fail_json(calls[i].resp)
    /\ outcome.changed = "true" => (Len(W) = 1 /\ Succeeded(W[1]))

\* C9 witness: a pass whose write was answered with an error.
C9_Witness ==
    /\ Done /\ Len(W) = 1 /\ ~Succeeded(W[1])
    /\ outcome.status = "fail"

\* C10: after a pass that ended in exit_json, the next pass of the same task
\* issues no write and, when its GET is answered, reports changed=false: for
\* a cluster, for a user wanted absent, and for a user with no password or
\* with policy on_create.  A user wanted present with a password under
\* 'always' is updated again by every later pass whose GET finds it.
C10_ConvergesInOnePass ==
    (Done /\ pass >= 2 /\ prev.status = "exit") =>
        IF \/ kind = "cluster"
           \/ UP.state = "absent"
           \/ UP.password = None
           \/ UP.update_password = "on_create"
           THEN /\ W = <<>>
                /\ Observed => ExitWith("false")
           ELSE subject_state = "present" =>
                   /\ OneWrite("update")
                   /\ Succeeded(W[1]) => ExitWith("true")

\* C10 witness: a user created or updated by one pass and left alone by the
\* next.
C10_Witness ==
    /\ Done /\ pass >= 2 /\ kind = "user"
    /\ prev.status = "exit" /\ prev.writes = 1
    /\ UP.state = "present"
    /\ W = <<>> /\ ExitWith("false")
====
